---------------------------- MODULE Spec2Model ----------------------------
(***************************************************************************)
(* Model of numpy_ros/geometry_msgs.py: the conversion handlers between    *)
(* ROS geometry_msgs messages and numpy values, and the registry the       *)
(* decorators converts_to_numpy / converts_to_message populate when the    *)
(* module is imported.                                                     *)
(*                                                                         *)
(* Floating point numbers are integers counting ticks of 1e-7, so that     *)
(* 1.0 is One and 1.0000001 is One + 1.  Single precision is the coarser   *)
(* grid of multiples of F32Step (1/8): a value off that grid is a double   *)
(* that a float32 cannot hold exactly.                                     *)
(*                                                                         *)
(* A Python call either returns a value or raises: Ok(v) or Err(exc,site), *)
(* where exc is the Python exception class and site the statement that     *)
(* raised it.                                                              *)
(***************************************************************************)
EXTENDS Integers, Sequences, FiniteSets, TLC

VARIABLES loaded, decoders, encoders, call, result

vars == <<loaded, decoders, encoders, call, result>>

---------------------------------------------------------------------------
(* Bounds of the explored inputs. *)

\* longest 1-D array handed to an encoder
MaxLen == 5

\* most points (columns) of a polygon
MaxPoints == 2

---------------------------------------------------------------------------
(* Numbers. *)

One == 10 * 1000000

Half == One \div 2

F32Step == One \div 8

Abs(v) == IF v < 0 THEN -v ELSE v

\* float32(v): the nearest value of the single precision grid
castF32(v) == ((v + F32Step \div 2) \div F32Step) * F32Step

IsF32Exact(v) == castF32(v) = v

\* np.isclose(a, b) with numpy's defaults rtol = 1e-5, atol = 1e-8:
\* |a - b| <= atol + rtol * |b|, in ticks of 1e-7 (atol is a tenth of a tick)
isclose(a, b) == 10 * Abs(a - b) <= 1 + Abs(b) \div 10000

---------------------------------------------------------------------------
(* Python results. *)

Ok(v) == [ok |-> TRUE, val |-> v]

Err(exc, site) == [ok |-> FALSE, exc |-> exc, site |-> site]

\* a call with the wrong number of positional arguments
ArityError(fn) == Err("TypeError", fn \o ": missing or extra positional argument")

None == [kind |-> "None"]

---------------------------------------------------------------------------
(* numpy values: an ndarray is its dtype, its shape and its elements in    *)
(* row-major order; a Python scalar is a 0-d value; np.quaternion has the  *)
(* components w, x, y, z; a Python tuple is its items.                     *)

ndarray(dtype, shape, data) ==
    [kind |-> "ndarray", dtype |-> dtype, shape |-> shape, data |-> data]

scalar(dtype, v) == [kind |-> "scalar", dtype |-> dtype, v |-> v]

np_quaternion(w, x, y, z) == [kind |-> "quaternion", w |-> w, x |-> x, y |-> y, z |-> z]

tuple(items) == [kind |-> "tuple", items |-> items]

castTo(dtype, v) == IF dtype = "float32" THEN castF32(v) ELSE v

\* np.array(list_of_floats, dtype=dtype)
np_array(data, dtype) ==
    ndarray(dtype, <<Len(data)>>, [i \in 1..Len(data) |-> castTo(dtype, data[i])])

\* element [i, j] (0-based, as in the source) of a 2-D array
At(a, i, j) == a.data[i * a.shape[2] + j + 1]

\* np.min_scalar_type: the dtype of an array as it is declared, the smallest
\* type holding the value for a scalar (every real of the model fits the
\* range of float16, a complex number needs complex64)
min_scalar_type(a) ==
    IF a.kind = "ndarray" THEN a.dtype
    ELSE IF a.dtype = "complex128" THEN "complex64" ELSE "float16"

\* np.can_cast(from, to) under the default 'safe' casting.  A class that is
\* no dtype (a message class) is read as the object dtype, to which
\* everything casts.
can_cast(from, to) ==
    CASE to = "object"  -> TRUE
      [] to = "float64" -> from \in {"float16", "float32", "float64", "int64"}
      [] to = "float32" -> from \in {"float16", "float32"}
      [] OTHER          -> FALSE

---------------------------------------------------------------------------
(* Messages: a record with its class in "type" and the fields of the       *)
(* class.  A stamped message holds a header and one payload field.         *)

Vector3Msg(type, x, y, z) == [type |-> type, x |-> x, y |-> y, z |-> z]

QuaternionMsg(x, y, z, w) == [type |-> "Quaternion", x |-> x, y |-> y, z |-> z, w |-> w]

\* Accel, Twist (linear, angular) and Wrench (force, torque)
KinematicsMsg(type, first, second) ==
    IF type = "Wrench"
    THEN [type |-> type, force |-> first, torque |-> second]
    ELSE [type |-> type, linear |-> first, angular |-> second]

\* AccelWithCovariance (accel) and TwistWithCovariance (twist)
WithCovarianceMsg(type, kinematics, covariance) ==
    IF type = "AccelWithCovariance"
    THEN [type |-> type, accel |-> kinematics, covariance |-> covariance]
    ELSE [type |-> type, twist |-> kinematics, covariance |-> covariance]

InertiaMsg(m, com, ixx, ixy, ixz, iyy, iyz, izz) ==
    [type |-> "Inertia", m |-> m, com |-> com, ixx |-> ixx, ixy |-> ixy,
     ixz |-> ixz, iyy |-> iyy, iyz |-> iyz, izz |-> izz]

PolygonMsg(points) == [type |-> "Polygon", points |-> points]

\* Pose (position, orientation) and Transform (translation, rotation)
FrameMsg(type, position, rotation) ==
    IF type = "Pose"
    THEN [type |-> type, position |-> position, orientation |-> rotation]
    ELSE [type |-> type, translation |-> position, rotation |-> rotation]

\* the map without the entry of Vector3Stamped
_stamped_type_to_attr_missing ==
    [t \in {"AccelStamped", "AccelWithCovarianceStamped", "InertiaStamped",
            "PointStamped", "PolygonStamped", "PoseStamped",
            "QuaternionStamped", "TransformStamped", "TwistStamped",
            "TwistWithCovarianceStamped", "WrenchStamped"} |->
        CASE t = "AccelStamped"               -> "accel"
          [] t = "AccelWithCovarianceStamped" -> "accel"
          [] t = "InertiaStamped"             -> "inertia"
          [] t = "PointStamped"               -> "point"
          [] t = "PolygonStamped"             -> "polygon"
          [] t = "PoseStamped"                -> "pose"
          [] t = "QuaternionStamped"          -> "quaternion"
          [] t = "TransformStamped"           -> "transform"
          [] t = "TwistStamped"               -> "twist"
          [] t = "TwistWithCovarianceStamped" -> "twist"
          [] t = "WrenchStamped"              -> "wrench"]

_stamped_type_to_attr ==
    [t \in {"AccelStamped", "AccelWithCovarianceStamped", "InertiaStamped",
            "PointStamped", "PolygonStamped", "PoseStamped",
            "QuaternionStamped", "TransformStamped", "TwistStamped",
            "TwistWithCovarianceStamped", "Vector3Stamped", "WrenchStamped"} |->
        CASE t = "AccelStamped"               -> "accel"
          [] t = "AccelWithCovarianceStamped" -> "accel"
          [] t = "InertiaStamped"             -> "inertia"
          [] t = "PointStamped"               -> "point"
          [] t = "PolygonStamped"             -> "polygon"
          [] t = "PoseStamped"                -> "pose"
          [] t = "QuaternionStamped"          -> "quaternion"
          [] t = "TransformStamped"           -> "transform"
          [] t = "TwistStamped"               -> "twist"
          [] t = "TwistWithCovarianceStamped" -> "twist"
          [] t = "Vector3Stamped"             -> "vector"
          [] t = "WrenchStamped"              -> "wrench"]

\* the payload field of each stamped class of geometry_msgs
PayloadField(type) ==
    CASE type \in {"AccelStamped", "AccelWithCovarianceStamped"} -> "accel"
      [] type \in {"TwistStamped", "TwistWithCovarianceStamped"} -> "twist"
      [] type = "InertiaStamped"    -> "inertia"
      [] type = "PointStamped"      -> "point"
      [] type = "PolygonStamped"    -> "polygon"
      [] type = "PoseStamped"       -> "pose"
      [] type = "QuaternionStamped" -> "quaternion"
      [] type = "TransformStamped"  -> "transform"
      [] type = "Vector3Stamped"    -> "vector"
      [] type = "WrenchStamped"     -> "wrench"

StampedMsg(type, header, payload) ==
    [f \in {"type", "header", PayloadField(type)} |->
        CASE f = "type"   -> type
          [] f = "header" -> header
          [] OTHER        -> payload]

\* _unstamp: the payload of a class the map knows, the message itself otherwise
_unstamp(message) ==
    IF message.type \in DOMAIN _stamped_type_to_attr
    THEN message[_stamped_type_to_attr[message.type]]
    ELSE message

\* an attribute a message does not have raises AttributeError
hasattrs(message, names) == names \subseteq DOMAIN message

NoAttribute(fn) == Err("AttributeError", fn \o ": message has no such field")

\* _assert_is_castable: None, or the TypeError of line 63
_assert_is_castable(array, dtype) ==
    IF can_cast(min_scalar_type(array), dtype)
    THEN Ok(None)
    ELSE Err("TypeError", "Cannot safely cast array")

\* homogeneous=False unless the keyword is passed
Homogeneous(kwargs) == IF kwargs = <<>> THEN FALSE ELSE kwargs[1]

---------------------------------------------------------------------------
(* Vectors and points. *)

vector_to_numpy(message0, kwargs) ==
    LET message == _unstamp(message0)
        homogeneous == Homogeneous(kwargs)
    IN  IF ~hasattrs(message, {"x", "y", "z"}) THEN NoAttribute("vector_to_numpy")
        ELSE
        LET data == <<message.x, message.y, message.z>>
                        \o (IF homogeneous THEN <<One>> ELSE <<>>)
            dtype == IF message.type = "Point32" THEN "float32" ELSE "float64"
        IN  Ok(np_array(data, dtype))

\* numpy_to_vector comparing the fourth component with 1.0 exactly
numpy_to_vector_exact(args) ==
    IF Len(args) # 2 THEN ArityError("numpy_to_vector")
    ELSE
    LET message_type == args[1]
        array == args[2]
    IN  IF array.kind # "ndarray" THEN NoAttribute("numpy_to_vector")
        ELSE IF array.shape \notin {<<3>>, <<4>>}
        THEN Err("ValueError", "Expected array of shape (3,) or (4,)")
        ELSE
        LET dtype == IF message_type = "Point32" THEN "float32" ELSE "float64"
            castable == _assert_is_castable(array, dtype)
        IN  IF ~castable.ok THEN castable
            ELSE IF Len(array.data) = 4 /\ array.data[4] # One
            THEN Err("ValueError", "last component != 1")
            ELSE Ok(Vector3Msg(message_type, array.data[1], array.data[2], array.data[3]))

numpy_to_vector(args) ==
    IF Len(args) # 2 THEN ArityError("numpy_to_vector")
    ELSE
    LET message_type == args[1]
        array == args[2]
    IN  IF array.kind # "ndarray" THEN NoAttribute("numpy_to_vector")
        ELSE IF array.shape \notin {<<3>>, <<4>>}
        THEN Err("ValueError", "Expected array of shape (3,) or (4,)")
        ELSE
        LET dtype == IF message_type = "Point32" THEN "float32" ELSE "float64"
            castable == _assert_is_castable(array, dtype)
        IN  IF ~castable.ok THEN castable
            ELSE IF Len(array.data) = 4 /\ ~isclose(array.data[4], One)
            THEN Err("ValueError", "last component != 1")
            ELSE Ok(Vector3Msg(message_type, array.data[1], array.data[2], array.data[3]))

---------------------------------------------------------------------------
(* Accel, Twist, Wrench. *)

kinematics_to_numpy(message0, kwargs) ==
    LET message == _unstamp(message0)
        homogeneous == Homogeneous(kwargs)
        is_wrench == message.type = "Wrench"
        linear_key == IF is_wrench THEN "force" ELSE "linear"
        angular_key == IF is_wrench THEN "torque" ELSE "angular"
    IN  IF ~hasattrs(message, {linear_key}) THEN NoAttribute("kinematics_to_numpy")
        ELSE IF ~hasattrs(message, {angular_key}) THEN NoAttribute("kinematics_to_numpy")
        ELSE
        LET linear == vector_to_numpy(message[linear_key], <<homogeneous>>)
            angular == vector_to_numpy(message[angular_key], <<homogeneous>>)
        IN  IF ~linear.ok THEN linear
            ELSE IF ~angular.ok THEN angular
            ELSE Ok(tuple(<<linear.val, angular.val>>))

\* lines 136 and 137 call numpy_to_vector with the array alone
numpy_to_kinamatics(args) ==
    IF Len(args) # 3 THEN ArityError("numpy_to_kinamatics")
    ELSE
    LET message_type == args[1]
        linear == numpy_to_vector(<<args[2]>>)
        angular == numpy_to_vector(<<args[3]>>)
    IN  IF ~linear.ok THEN linear
        ELSE IF ~angular.ok THEN angular
        ELSE Ok(KinematicsMsg(message_type, linear.val, angular.val))

---------------------------------------------------------------------------
(* AccelWithCovariance, TwistWithCovariance. *)

\* array.reshape(6, 6) of a 1-D array
reshape66(array) ==
    IF Len(array.data) # 36
    THEN Err("ValueError", "cannot reshape array into shape (6,6)")
    ELSE Ok(ndarray(array.dtype, <<6, 6>>, array.data))

kinematics_with_covariance_to_numpy(message0, kwargs) ==
    LET message == _unstamp(message0)
        homogeneous == Homogeneous(kwargs)
        is_accel == message.type = "AccelWithCovariance"
        kinematics_key == IF is_accel THEN "accel" ELSE "twist"
    IN  IF ~hasattrs(message, {kinematics_key})
        THEN NoAttribute("kinematics_with_covariance_to_numpy")
        ELSE
        LET kinematics == kinematics_to_numpy(message[kinematics_key], <<homogeneous>>)
        IN  IF ~kinematics.ok THEN kinematics
            ELSE IF ~hasattrs(message, {"covariance"})
            THEN NoAttribute("kinematics_with_covariance_to_numpy")
            ELSE
            LET covariance == reshape66(np_array(message.covariance, "float64"))
            IN  IF ~covariance.ok THEN covariance
                ELSE Ok(tuple(<<kinematics.val.items[1], kinematics.val.items[2],
                                covariance.val>>))

\* the 36 values of the message field, array.flatten() being row-major
numpy_to_covariance(args) ==
    IF Len(args) # 1 THEN ArityError("numpy_to_covariance")
    ELSE
    LET array == args[1]
        castable == _assert_is_castable(array, "float64")
    IN  IF ~castable.ok THEN castable
        ELSE IF array.shape # <<6, 6>>
        THEN Err("ValueError", "Expected covariance matrix of shape (6,6)")
        ELSE Ok(array.data)

numpy_to_kinematics_with_covariance(args) ==
    IF Len(args) # 4 THEN ArityError("numpy_to_kinematics_with_covariance")
    ELSE
    LET message_type == args[1]
        is_accel == message_type = "AccelWithCovariance"
        kinematics_message_type == IF is_accel THEN "Accel" ELSE "Twist"
        kinematics_message ==
            numpy_to_kinamatics(<<kinematics_message_type, args[2], args[3]>>)
    IN  IF ~kinematics_message.ok THEN kinematics_message
        ELSE
        LET covariance_message == numpy_to_covariance(<<args[4]>>)
        IN  IF ~covariance_message.ok THEN covariance_message
            ELSE Ok(WithCovarianceMsg(message_type, kinematics_message.val,
                                      covariance_message.val))

---------------------------------------------------------------------------
(* Inertia. *)

inertia_to_numpy(message0, kwargs) ==
    LET message == _unstamp(message0)
        homogeneous == Homogeneous(kwargs)
    IN  IF ~hasattrs(message, {"m", "com"}) THEN NoAttribute("inertia_to_numpy")
        ELSE
        LET mass == scalar("float64", message.m)
            mass_center == vector_to_numpy(message.com, <<homogeneous>>)
        IN  IF ~mass_center.ok THEN mass_center
            ELSE
            LET inertia_tensor ==
                    ndarray("float64", <<3, 3>>,
                            <<message.ixx, message.ixy, message.ixz,
                              message.ixy, message.iyy, message.iyz,
                              message.ixz, message.iyz, message.izz>>)
            IN  Ok(tuple(<<mass, mass_center.val, inertia_tensor>>))

\* iyz is read from inertia_tensor[2, 1] (line 245)
numpy_to_inertia(args) ==
    IF Len(args) # 4 THEN ArityError("numpy_to_inertia")
    ELSE
    LET mass == args[2]
        mass_center == args[3]
        inertia_tensor == args[4]
        castable_mass == _assert_is_castable(mass, "float64")
        castable_tensor == _assert_is_castable(inertia_tensor, "float64")
    IN  IF ~castable_mass.ok THEN castable_mass
        ELSE IF ~castable_tensor.ok THEN castable_tensor
        ELSE
        LET mass_center_message == numpy_to_vector(<<"Vector3", mass_center>>)
        IN  IF ~mass_center_message.ok THEN mass_center_message
            ELSE IF inertia_tensor.shape # <<3, 3>>
            THEN Err("ValueError", "Expected inertia tensor of shape (3,3)")
            ELSE Ok(InertiaMsg(mass.v, mass_center_message.val,
                               At(inertia_tensor, 0, 0), At(inertia_tensor, 0, 1),
                               At(inertia_tensor, 0, 2), At(inertia_tensor, 1, 1),
                               At(inertia_tensor, 2, 1), At(inertia_tensor, 2, 2)))

---------------------------------------------------------------------------
(* Polygon. *)

\* np.array(list of N equally long 1-D arrays, dtype=dtype): shape (N, k),
\* and shape (0,) for the empty list
np_stack(rows, dtype) ==
    IF Len(rows) = 0 THEN ndarray(dtype, <<0>>, <<>>)
    ELSE LET k == rows[1].shape[1]
         IN  ndarray(dtype, <<Len(rows), k>>,
                     [n \in 1..(Len(rows) * k) |->
                         castTo(dtype, rows[((n - 1) \div k) + 1].data[((n - 1) % k) + 1])])

\* array.T: the axes reversed (a 1-D array is its own transpose)
T(array) ==
    IF Len(array.shape) # 2 THEN array
    ELSE LET r == array.shape[1]
             c == array.shape[2]
         IN  ndarray(array.dtype, <<c, r>>,
                     [n \in 1..(r * c) |->
                         array.data[((n - 1) % r) * c + ((n - 1) \div r) + 1]])

\* np.hsplit(points, N)[j].squeeze(): column j (0-based) of a 2-D array; a
\* single row or a single column of one row squeezes further
column(points, j) ==
    LET r == points.shape[1]
        cells == [i \in 1..r |-> At(points, i - 1, j)]
    IN  ndarray(points.dtype, IF r = 1 THEN <<>> ELSE <<r>>, cells)

polygon_to_numpy(message0, kwargs) ==
    LET message == _unstamp(message0)
        homogeneous == Homogeneous(kwargs)
    IN  IF ~hasattrs(message, {"points"}) THEN NoAttribute("polygon_to_numpy")
        ELSE
        LET decoded == [k \in 1..Len(message.points) |->
                            vector_to_numpy(message.points[k], <<homogeneous>>)]
            failed == {k \in 1..Len(message.points) : ~decoded[k].ok}
        IN  IF failed # {}
            THEN decoded[CHOOSE k \in failed : \A l \in failed : k <= l]
            ELSE Ok(T(np_stack([k \in 1..Len(message.points) |-> decoded[k].val],
                               "float32")))

numpy_to_polygon(args) ==
    IF Len(args) # 2 THEN ArityError("numpy_to_polygon")
    ELSE
    LET points == args[2]
        castable == _assert_is_castable(points, "float32")
    IN  IF ~castable.ok THEN castable
        ELSE IF Len(points.shape) # 2 \/ points.shape[1] \notin {3, 4}
        THEN Err("ValueError", "Expected matrix of shape (3, *) or (4, *)")
        \* np.split computes N % sections before it splits
        ELSE IF points.shape[2] = 0
        THEN Err("ZeroDivisionError", "np.hsplit into 0 sections")
        ELSE
        LET N == points.shape[2]
            point_msg == [k \in 1..N |->
                              numpy_to_vector(<<"Point32", column(points, k - 1)>>)]
            failed == {k \in 1..N : ~point_msg[k].ok}
        IN  IF failed # {}
            THEN point_msg[CHOOSE k \in failed : \A l \in failed : k <= l]
            ELSE Ok(PolygonMsg([k \in 1..N |-> point_msg[k].val]))

---------------------------------------------------------------------------
(* Quaternion. *)

\* np.quaternion(a, b, c, d) has w = a, x = b, y = c, z = d; line 287 passes
\* the message's x, y, z, w in that order.  The function takes no
\* homogeneous keyword.
quaternion_to_numpy(message0, kwargs) ==
    IF kwargs # <<>>
    THEN Err("TypeError", "quaternion_to_numpy: unexpected keyword argument")
    ELSE
    LET message == _unstamp(message0)
    IN  IF ~hasattrs(message, {"x", "y", "z", "w"}) THEN NoAttribute("quaternion_to_numpy")
        ELSE Ok(np_quaternion(message.x, message.y, message.z, message.w))

\* quaternion.as_float_array(q) is [q.w, q.x, q.y, q.z]
as_float_array(q) == <<q.w, q.x, q.y, q.z>>

numpy_to_quaternion(args) ==
    IF Len(args) # 2 THEN ArityError("numpy_to_quaternion")
    ELSE
    LET numpy_obj == args[2]
    IN  IF numpy_obj.kind = "quaternion"
        THEN LET a == as_float_array(numpy_obj)
             IN  Ok(QuaternionMsg(a[1], a[2], a[3], a[4]))
        ELSE
        LET castable == _assert_is_castable(numpy_obj, "float64")
        IN  IF ~castable.ok THEN castable
            ELSE IF numpy_obj.kind # "ndarray" THEN NoAttribute("numpy_to_quaternion")
            ELSE IF numpy_obj.shape # <<4>>
            THEN Err("ValueError", "Expected array of shape (4,)")
            ELSE Ok(QuaternionMsg(numpy_obj.data[1], numpy_obj.data[2],
                                  numpy_obj.data[3], numpy_obj.data[4]))

---------------------------------------------------------------------------
(* Pose, Transform. *)

\* quaternion.as_rotation_matrix(q) of the numpy-quaternion package:
\* the rotation matrix of q / |q|, ZeroDivisionError for the zero quaternion.
\* The components are taken in halves (the model's quaternions have
\* components that are multiples of 1/2), n4 being four times q.norm().
as_rotation_matrix(q) ==
    LET w == q.w \div Half
        x == q.x \div Half
        y == q.y \div Half
        z == q.z \div Half
        n4 == w * w + x * x + y * y + z * z
        diag(a, b) == One - (2 * (a * a + b * b) * One) \div n4
        off(v) == (2 * v * One) \div n4
    IN  IF n4 = 0 THEN Err("ZeroDivisionError", "as_rotation_matrix: zero norm")
        ELSE Ok(ndarray("float64", <<3, 3>>,
                 << diag(y, z),         off(x * y - z * w),  off(x * z + y * w),
                    off(x * y + z * w), diag(x, z),          off(y * z - x * w),
                    off(x * z - y * w), off(y * z + x * w),  diag(x, y) >>))

frame_to_numpy(message0, kwargs) ==
    LET message == _unstamp(message0)
        homogeneous == Homogeneous(kwargs)
        is_pose == message.type = "Pose"
        position_key == IF is_pose THEN "position" ELSE "translation"
        rotation_key == IF is_pose THEN "orientation" ELSE "rotation"
    IN  IF ~hasattrs(message, {position_key}) THEN NoAttribute("frame_to_numpy")
        ELSE IF ~hasattrs(message, {rotation_key}) THEN NoAttribute("frame_to_numpy")
        ELSE
        LET position == vector_to_numpy(message[position_key], <<homogeneous>>)
            rotation == quaternion_to_numpy(message[rotation_key], <<>>)
        IN  IF ~position.ok THEN position
            ELSE IF ~rotation.ok THEN rotation
            ELSE IF ~homogeneous THEN Ok(tuple(<<position.val, rotation.val>>))
            ELSE
            \* np.eye(4), its last column set to position, then its top-left
            \* 3x3 block set to the rotation matrix
            LET R == as_rotation_matrix(rotation.val)
                p == position.val.data
            IN  IF ~R.ok THEN R
                ELSE Ok(ndarray("float64", <<4, 4>>,
                    << R.val.data[1], R.val.data[2], R.val.data[3], p[1],
                       R.val.data[4], R.val.data[5], R.val.data[6], p[2],
                       R.val.data[7], R.val.data[8], R.val.data[9], p[3],
                       0,             0,             0,             p[4] >>))

\* bool(array), as "not array" takes it: the one element of an array of size
\* 1, ValueError for an array of several elements
truth_value(bools) ==
    IF Len(bools) = 1 THEN Ok(bools[1])
    ELSE IF Len(bools) = 0 THEN Ok(FALSE)
    ELSE Err("ValueError", "The truth value of an array with more than one element is ambiguous")

\* For one argument: line 342 checks the cast against the class Pose, line
\* 350 takes the truth value of an elementwise comparison, line 353 reads the
\* position from row 3.  Line 367 calls numpy_to_vector with the position
\* alone; it is evaluated before line 368, so that the rotation of line 354
\* is never used.
numpy_to_frame(args) ==
    IF Len(args) < 1 THEN ArityError("numpy_to_frame")
    ELSE
    LET message_type == args[1]
        rest == SubSeq(args, 2, Len(args))
        build(position) ==
            LET position_message == numpy_to_vector(<<position>>)
            IN  IF ~position_message.ok THEN position_message
                ELSE ArityError("numpy_to_quaternion")
    IN  IF Len(rest) = 1
        THEN LET matrix == rest[1]
                 castable == _assert_is_castable(matrix, "object")
             IN  IF ~castable.ok THEN castable
                 ELSE IF matrix.kind # "ndarray" THEN NoAttribute("numpy_to_frame")
                 ELSE IF matrix.shape # <<4, 4>>
                 THEN Err("ValueError", "Expected homogeneous matrix of shape (4,4)")
                 ELSE
                 LET bottom == <<0, 0, 0, One>>
                     equal == [j \in 1..4 |-> At(matrix, 3, j - 1) = bottom[j]]
                     truth == truth_value(equal)
                 IN  IF ~truth.ok THEN truth
                     ELSE IF ~truth.val
                     THEN Err("ValueError", "is not a homogeneous matrix")
                     ELSE build(ndarray(matrix.dtype, <<4>>,
                                        [j \in 1..4 |-> At(matrix, 3, j - 1)]))
        ELSE IF Len(rest) = 2 THEN build(rest[1])
        ELSE Err("ValueError", "Expected either position and rotation or homogeneous transform")

---------------------------------------------------------------------------
(* The registry of numpy_ros.conversions, as the decorators of this module *)
(* fill it, in the order of the source.                                    *)

Declarations ==
    << [registry |-> "to_numpy", fn |-> "vector_to_numpy",
        types |-> {"Vector3", "Vector3Stamped", "Point", "PointStamped", "Point32"}],
       [registry |-> "to_message", fn |-> "numpy_to_vector",
        types |-> {"Vector3", "Point", "Point32"}],
       [registry |-> "to_numpy", fn |-> "kinematics_to_numpy",
        types |-> {"Accel", "AccelStamped", "Twist", "TwistStamped", "Wrench",
                   "WrenchStamped"}],
       [registry |-> "to_message", fn |-> "numpy_to_kinamatics",
        types |-> {"Accel", "Twist", "Wrench"}],
       [registry |-> "to_numpy", fn |-> "kinematics_with_covariance_to_numpy",
        types |-> {"AccelWithCovariance", "AccelWithCovarianceStamped",
                   "TwistWithCovariance", "TwistWithCovarianceStamped"}],
       [registry |-> "to_message", fn |-> "numpy_to_kinematics_with_covariance",
        types |-> {"AccelWithCovariance", "TwistWithCovariance"}],
       [registry |-> "to_numpy", fn |-> "inertia_to_numpy",
        types |-> {"Inertia", "InertiaStamped"}],
       [registry |-> "to_message", fn |-> "numpy_to_inertia",
        types |-> {"Inertia"}],
       [registry |-> "to_numpy", fn |-> "polygon_to_numpy",
        types |-> {"Polygon", "PolygonStamped"}],
       [registry |-> "to_message", fn |-> "numpy_to_polygon",
        types |-> {"Polygon"}],
       [registry |-> "to_numpy", fn |-> "quaternion_to_numpy",
        types |-> {"Quaternion", "QuaternionStamped"}],
       [registry |-> "to_message", fn |-> "numpy_to_quaternion",
        types |-> {"Quaternion"}],
       [registry |-> "to_numpy", fn |-> "frame_to_numpy",
        types |-> {"Pose", "PoseStamped", "Transform", "TransformStamped"}],
       [registry |-> "to_message", fn |-> "numpy_to_frame",
        types |-> {"Pose", "PoseStamped", "Transform", "TransformStamped"}] >>

\* the registry with fn associated with every type of types
register(table, types, fn) ==
    [t \in DOMAIN table \cup types |-> IF t \in types THEN fn ELSE table[t]]

UnsupportedType(type) == Err("UnsupportedTypeError", type)

\* to_numpy(message, **kwargs): the decoder registered for the exact class
to_numpy(table, message, kwargs) ==
    IF message.type \notin DOMAIN table THEN UnsupportedType(message.type)
    ELSE LET fn == table[message.type]
         IN  CASE fn = "vector_to_numpy"     -> vector_to_numpy(message, kwargs)
               [] fn = "kinematics_to_numpy" -> kinematics_to_numpy(message, kwargs)
               [] fn = "kinematics_with_covariance_to_numpy" ->
                      kinematics_with_covariance_to_numpy(message, kwargs)
               [] fn = "inertia_to_numpy"    -> inertia_to_numpy(message, kwargs)
               [] fn = "polygon_to_numpy"    -> polygon_to_numpy(message, kwargs)
               [] fn = "quaternion_to_numpy" -> quaternion_to_numpy(message, kwargs)
               [] fn = "frame_to_numpy"      -> frame_to_numpy(message, kwargs)

\* to_message(message_type, *args): the encoder registered for the class
to_message(table, message_type, args) ==
    IF message_type \notin DOMAIN table THEN UnsupportedType(message_type)
    ELSE LET fn == table[message_type]
             all == <<message_type>> \o args
         IN  CASE fn = "numpy_to_vector"     -> numpy_to_vector(all)
               [] fn = "numpy_to_kinamatics" -> numpy_to_kinamatics(all)
               [] fn = "numpy_to_kinematics_with_covariance" ->
                      numpy_to_kinematics_with_covariance(all)
               [] fn = "numpy_to_inertia"    -> numpy_to_inertia(all)
               [] fn = "numpy_to_polygon"    -> numpy_to_polygon(all)
               [] fn = "numpy_to_quaternion" -> numpy_to_quaternion(all)
               [] fn = "numpy_to_frame"      -> numpy_to_frame(all)

---------------------------------------------------------------------------
(* The messages and the numpy values the calls are made with. *)

\* members of a set of tuples, as sequences: Seqs(S, n) is [1..n -> S]
Seqs(S, n) == [1..n -> S]

Triples == { <<0, 0, 0>>, <<One, 2 * One, 3 * One>>, <<-Half, Half, One + 1>> }

\* triples a float32 holds exactly, as the fields of a Point32 are
Triples32 == { t \in Triples \cup { <<-Half, F32Step, 3 * One>> } :
                  \A i \in 1..3 : IsF32Exact(t[i]) }

VectorMessages(type) ==
    { Vector3Msg(type, t[1], t[2], t[3]) :
        t \in (IF type = "Point32" THEN Triples32 ELSE Triples) }

\* x, y, z, w of unit quaternions (the identity first), and of the
\* all-zero Quaternion() a message is constructed with
Quadruples ==
    { <<0, 0, 0, One>>, <<One, 0, 0, 0>>, <<0, 0, One, 0>>,
      <<Half, Half, Half, Half>>, <<-Half, Half, -Half, Half>>, <<0, 0, 0, 0>> }

QuaternionMessages == { QuaternionMsg(q[1], q[2], q[3], q[4]) : q \in Quadruples }

KinematicsMessages(type) ==
    { KinematicsMsg(type, a, b) : a, b \in VectorMessages("Vector3") }

\* 36 values in row-major order: all different, and a symmetric matrix
Covariances ==
    { [n \in 1..36 |-> n * One],
      [n \in 1..36 |-> (((n - 1) \div 6) + ((n - 1) % 6)) * Half] }

WithCovarianceMessages(type) ==
    { WithCovarianceMsg(type, k, c) :
        k \in { KinematicsMsg(IF type = "AccelWithCovariance" THEN "Accel" ELSE "Twist",
                              a, a) : a \in VectorMessages("Vector3") },
        c \in Covariances }

\* ixx, ixy, ixz, iyy, iyz, izz
Moments == { <<One, 0, 0, One, 0, One>>,
             <<One, 2 * One, 3 * One, 4 * One, 5 * One, 6 * One>> }

InertiaMessages ==
    { InertiaMsg(m, com, i[1], i[2], i[3], i[4], i[5], i[6]) :
        m \in {0, 3 * Half}, com \in VectorMessages("Vector3"), i \in Moments }

PolygonMessages ==
    UNION { { PolygonMsg(points) : points \in Seqs(VectorMessages("Point32"), n) } :
            n \in 0..MaxPoints }

FrameMessages(type) ==
    { FrameMsg(type, p, q) :
        p \in VectorMessages(IF type = "Pose" THEN "Point" ELSE "Vector3"),
        q \in QuaternionMessages }

BareTypes ==
    {"Vector3", "Point", "Point32", "Accel", "Twist", "Wrench",
     "AccelWithCovariance", "TwistWithCovariance", "Inertia", "Polygon",
     "Quaternion", "Pose", "Transform"}

StampedTypes ==
    {"AccelStamped", "AccelWithCovarianceStamped", "InertiaStamped",
     "PointStamped", "PolygonStamped", "PoseStamped", "QuaternionStamped",
     "TransformStamped", "TwistStamped", "TwistWithCovarianceStamped",
     "Vector3Stamped", "WrenchStamped"}

BareMessages(type) ==
    CASE type \in {"Vector3", "Point", "Point32"}   -> VectorMessages(type)
      [] type \in {"Accel", "Twist", "Wrench"}      -> KinematicsMessages(type)
      [] type \in {"AccelWithCovariance", "TwistWithCovariance"} ->
             WithCovarianceMessages(type)
      [] type = "Inertia"                           -> InertiaMessages
      [] type = "Polygon"                           -> PolygonMessages
      [] type = "Quaternion"                        -> QuaternionMessages
      [] type \in {"Pose", "Transform"}             -> FrameMessages(type)

\* the class of the payload of each stamped class of geometry_msgs
PayloadType(type) ==
    CASE type = "AccelStamped"               -> "Accel"
      [] type = "AccelWithCovarianceStamped" -> "AccelWithCovariance"
      [] type = "InertiaStamped"             -> "Inertia"
      [] type = "PointStamped"               -> "Point"
      [] type = "PolygonStamped"             -> "Polygon"
      [] type = "PoseStamped"                -> "Pose"
      [] type = "QuaternionStamped"          -> "Quaternion"
      [] type = "TransformStamped"           -> "Transform"
      [] type = "TwistStamped"               -> "Twist"
      [] type = "TwistWithCovarianceStamped" -> "TwistWithCovariance"
      [] type = "Vector3Stamped"             -> "Vector3"
      [] type = "WrenchStamped"              -> "Wrench"

Headers == { [seq |-> 0, frame_id |-> ""], [seq |-> 7, frame_id |-> "map"] }

StampedMessages(type) ==
    { StampedMsg(type, h, m) : h \in Headers, m \in BareMessages(PayloadType(type)) }

Messages(type) ==
    IF type \in StampedTypes THEN StampedMessages(type) ELSE BareMessages(type)

\* an array holds what its dtype can hold
WellFormed(dtype, data) ==
    CASE dtype = "float32" -> \A i \in 1..Len(data) : IsF32Exact(data[i])
      [] dtype = "int64"   -> \A i \in 1..Len(data) : data[i] % One = 0
      [] OTHER             -> TRUE

Dtypes == {"float64", "float32", "int64", "complex128"}

Arrays(shape, datas) ==
    UNION { { ndarray(dtype, shape, data) :
                data \in { d \in datas : WellFormed(dtype, d) } } : dtype \in Dtypes }

Components == {0, Half, One}

\* the last component of a 1-D array: 1, values around the tolerance of
\* np.isclose (1 + 1e-7, 1 + 1e-5, 1 + 1.01e-5), and values far from 1
LastComponents == Components \cup {One + 1, One + 100, One + 101, -One}

Vectors(n) ==
    IF n = 0 THEN Arrays(<<0>>, {<<>>})
    ELSE Arrays(<<n>>, { [i \in 1..n |-> IF i < n THEN d[i] ELSE l] :
                           d \in Seqs(Components, n - 1), l \in LastComponents })

\* 1-D arrays of every length to MaxLen, and two 2-D arrays of three elements
VectorArguments ==
    UNION { Vectors(n) : n \in 0..MaxLen }
      \cup Arrays(<<3, 1>>, {<<One, 2 * One, 3 * One>>})
      \cup Arrays(<<1, 3>>, {<<One, 2 * One, 3 * One>>})

\* a few of them, for the encoders that take several arrays
SomeVectors ==
    { ndarray("float64", <<3>>, <<One, 2 * One, 3 * One>>),
      ndarray("float64", <<4>>, <<0, Half, One, One>>),
      ndarray("float32", <<3>>, <<Half, 0, One>>),
      ndarray("float64", <<2>>, <<One, One>>) }

QuaternionArguments ==
    { np_quaternion(q[4], q[1], q[2], q[3]) : q \in Quadruples }
      \cup UNION { Vectors(n) : n \in 3..MaxLen }

CovarianceArguments ==
    UNION { Arrays(<<6, 6>>, {c}) \cup Arrays(<<36>>, {c}) : c \in Covariances }
      \cup Arrays(<<6, 5>>, {[n \in 1..30 |-> n * One]})

Tensors ==
    { <<One, 0, 0, 0, One, 0, 0, 0, One>>,
      <<One, 2 * One, 3 * One, 2 * One, 4 * One, 5 * One, 3 * One, 5 * One, 6 * One>>,
      <<One, 2 * One, 3 * One, 4 * One, 5 * One, 6 * One, 7 * One, 8 * One, 9 * One>> }

TensorArguments ==
    Arrays(<<3, 3>>, Tensors) \cup Arrays(<<9>>, Tensors)
      \cup Arrays(<<2, 2>>, {<<One, 0, 0, One>>})

MassArguments ==
    { scalar("float64", 0), scalar("float64", 3 * Half), scalar("complex128", One) }

\* a column of r rows: a triple, cut to r or continued with l
Column(t, l, r) == [i \in 1..r |-> IF i <= 3 THEN t[i] ELSE l]

Columns(r) == { Column(t, l, r) : t \in Triples32 \cup Triples, l \in {One, Half} }

\* the (r, N) array of N columns, in row-major order
Matrix(cols, r) ==
    LET N == Len(cols)
    IN  [n \in 1..(r * N) |-> cols[((n - 1) % N) + 1][((n - 1) \div N) + 1]]

PolygonArguments ==
    UNION { Arrays(<<r, N>>, { Matrix(cols, r) : cols \in Seqs(Columns(r), N) }) :
            r \in 2..5, N \in 0..MaxPoints }
      \cup Vectors(3)

\* 4x4 matrices: a rotation block, a translation and a bottom row
Rotations ==
    { <<One, 0, 0, 0, One, 0, 0, 0, One>>,
      <<0, -One, 0, One, 0, 0, 0, 0, One>> }

Homogeneous44(R, t, b) ==
    << R[1], R[2], R[3], t[1],
       R[4], R[5], R[6], t[2],
       R[7], R[8], R[9], t[3],
       b[1], b[2], b[3], b[4] >>

BottomRows == { <<0, 0, 0, One>>, <<0, 0, 0, 2 * One>>, <<0, 0, One, One>> }

MatrixArguments ==
    Arrays(<<4, 4>>, { Homogeneous44(R, t, b) :
                         R \in Rotations, t \in Triples, b \in BottomRows })
      \cup Arrays(<<3, 3>>, Rotations)
      \cup Arrays(<<1, 1>>, {<<One>>})
      \cup Vectors(4)

\* the positional arguments to_message is called with, for each class
Arguments(type) ==
    CASE type \in {"Vector3", "Point", "Point32", "Vector3Stamped"} ->
             { <<a>> : a \in VectorArguments }
      [] type = "Quaternion" -> { <<q>> : q \in QuaternionArguments }
      [] type \in {"Accel", "Twist", "Wrench"} ->
             { <<a, b>> : a, b \in SomeVectors } \cup { <<a>> : a \in SomeVectors }
      [] type \in {"AccelWithCovariance", "TwistWithCovariance"} ->
             { <<a, a, c>> : a \in SomeVectors, c \in CovarianceArguments }
      [] type = "Inertia" ->
             { <<m, a, t>> : m \in MassArguments, a \in SomeVectors,
                             t \in TensorArguments }
      [] type = "Polygon" -> { <<p>> : p \in PolygonArguments }
      [] type \in {"Pose", "Transform", "PoseStamped", "TransformStamped"} ->
             { <<m>> : m \in MatrixArguments }
               \cup { <<a, q>> : a \in SomeVectors, q \in QuaternionArguments }
               \cup { <<>> }
               \cup { <<a, a, a>> : a \in SomeVectors }

---------------------------------------------------------------------------
(* The state machine: the import of the module registers the handlers one  *)
(* decorator after the other; the two entry points are called after it.    *)
(* call is the call being made and result what it returned or raised; the  *)
(* handlers keep no state, so that the calls are made one after the other, *)
(* each from the state in which no call is in progress.                    *)

Call(op, type, message, kwargs, args, origin) ==
    [op |-> op, type |-> type, message |-> message, kwargs |-> kwargs,
     args |-> args, origin |-> origin]

Idle == Call("idle", "", None, <<>>, <<>>, None)

Init ==
    /\ loaded = 0
    /\ decoders = <<>>
    /\ encoders = <<>>
    /\ call = Idle
    /\ result = Ok(None)

Imported == loaded = Len(Declarations)

\* @converts_to_numpy(*types)
RegisterDecoder ==
    /\ loaded < Len(Declarations)
    /\ LET d == Declarations[loaded + 1]
       IN  /\ d.registry = "to_numpy"
           /\ d.types \cap DOMAIN decoders = {}
           /\ decoders' = register(decoders, d.types, d.fn)
    /\ loaded' = loaded + 1
    /\ UNCHANGED <<encoders, call, result>>

\* @converts_to_message(*types)
RegisterEncoder ==
    /\ loaded < Len(Declarations)
    /\ LET d == Declarations[loaded + 1]
       IN  /\ d.registry = "to_message"
           /\ d.types \cap DOMAIN encoders = {}
           /\ encoders' = register(encoders, d.types, d.fn)
    /\ loaded' = loaded + 1
    /\ UNCHANGED <<decoders, call, result>>

\* to_numpy(message) and to_numpy(message, homogeneous=h)
ToNumpy ==
    /\ Imported
    /\ call = Idle
    /\ \E type \in BareTypes \cup StampedTypes :
       \E message \in Messages(type) :
       \E kwargs \in {<<>>, <<FALSE>>, <<TRUE>>} :
          /\ call' = Call("to_numpy", type, message, kwargs, <<>>, None)
          /\ result' = to_numpy(decoders, message, kwargs)
    /\ UNCHANGED <<loaded, decoders, encoders>>

\* to_message(type, *args)
ToMessage ==
    /\ Imported
    /\ call = Idle
    /\ \E type \in DOMAIN encoders \cup {"Vector3Stamped"} :
       \E args \in Arguments(type) :
          /\ call' = Call("to_message", type, None, <<>>, args, None)
          /\ result' = to_message(encoders, type, args)
    /\ UNCHANGED <<loaded, decoders, encoders>>

\* what *value passes: the items of a tuple, the value itself otherwise
Star(value) == IF value.kind = "tuple" THEN value.items ELSE <<value>>

\* to_message(type(m), *to_numpy(m)), after to_numpy(m) has returned
Reencode ==
    /\ call.op = "to_numpy"
    /\ call.origin = None
    /\ call.kwargs = <<>>
    /\ call.type \in BareTypes
    /\ result.ok
    /\ call' = Call("to_message", call.type, None, <<>>, Star(result.val), call)
    /\ result' = to_message(encoders, call.type, Star(result.val))
    /\ UNCHANGED <<loaded, decoders, encoders>>

\* to_numpy(to_message(type, *args)), after to_message has returned
Redecode ==
    /\ call.op = "to_message"
    /\ call.origin = None
    /\ result.ok
    /\ call' = Call("to_numpy", call.type, result.val, <<>>, <<>>, call)
    /\ result' = to_numpy(decoders, result.val, <<>>)
    /\ UNCHANGED <<loaded, decoders, encoders>>

\* the caller takes the result
Return ==
    /\ call.op \in {"to_numpy", "to_message"}
    /\ call' = Idle
    /\ result' = Ok(None)
    /\ UNCHANGED <<loaded, decoders, encoders>>

Next ==
    \/ RegisterDecoder
    \/ RegisterEncoder
    \/ ToNumpy
    \/ ToMessage
    \/ Reencode
    \/ Redecode
    \/ Return

Spec == Init /\ [][Next]_vars

---------------------------------------------------------------------------
(* Properties. *)

IsArray(a, shape) == a.kind = "ndarray" /\ a.shape = shape

RealDtypes == {"float32", "float64", "int64"}

\* the call is to_message(type, array) with one ndarray
EncodesArray(types) ==
    /\ call.op = "to_message"
    /\ call.origin = None
    /\ call.type \in types
    /\ Len(call.args) = 1
    /\ call.args[1].kind = "ndarray"

\* C2: for every stamped class, every message s of it and every value of
\* the homogeneous flag, the decoder registered for the class of s gives
\* for s what the decoder registered for the class of the payload gives for
\* _unstamp(s); _unstamp(s) is the payload field of s, and _unstamp of a
\* message of any other class is the message itself.
StampedUnstampedEquivalence ==
    /\ (call.op = "to_numpy" /\ call.origin = None /\ call.type \in StampedTypes) =>
          LET payload == call.message[PayloadField(call.type)]
          IN  /\ _unstamp(call.message) = payload
              /\ _unstamp(payload) = payload
              /\ payload.type = PayloadType(call.type)
              /\ {call.type, payload.type} \subseteq DOMAIN decoders
              /\ result = to_numpy(decoders, payload, call.kwargs)
    /\ (call.op = "to_numpy" /\ call.origin = None /\ call.type \in BareTypes) =>
          _unstamp(call.message) = call.message

StampedDecoded ==
    /\ call.op = "to_numpy"
    /\ call.type = "TwistWithCovarianceStamped"
    /\ call.kwargs = <<TRUE>>
    /\ result.ok
    /\ result.val.items[1].shape = <<4>>
    /\ result.val.items[3].shape = <<6, 6>>

\* C6: numpy_to_vector(T, array) for T Vector3 or Point and an array whose
\* dtype casts to float64 succeeds exactly for shape (3,) and for shape (4,)
\* with a last component within 1e-8 + 1e-5 of 1.0, the message holding the
\* first three components; any other shape fails with the ValueError of the
\* shape check, and shape (4,) with another last component with the
\* ValueError of the homogeneous check.
VectorAcceptance ==
    (EncodesArray({"Vector3", "Point"}) /\ call.args[1].dtype \in RealDtypes) =>
        LET array == call.args[1]
            a == array.data
            first3 == Vector3Msg(call.type, a[1], a[2], a[3])
        IN  CASE array.shape = <<3>> -> result = Ok(first3)
              [] array.shape = <<4>> /\ 10 * Abs(a[4] - One) <= 1001 -> result = Ok(first3)
              [] array.shape = <<4>> /\ 10 * Abs(a[4] - One) > 1001 ->
                     result = Err("ValueError", "last component != 1")
              [] OTHER -> result = Err("ValueError", "Expected array of shape (3,) or (4,)")

HomogeneousVectorAccepted ==
    /\ EncodesArray({"Vector3"})
    /\ IsArray(call.args[1], <<4>>)
    /\ call.args[1].data[4] = One + 1
    /\ result.ok
    /\ result.val.x = call.args[1].data[1]

\* C3: once the module is imported, no class of the stamped-type map has
\* an encoder registered.
NoStampedEncoder ==
    Imported => DOMAIN encoders \cap DOMAIN _stamped_type_to_attr = {}

\* the fields of a vector message are the three values
HoldsTriple(message, x, y, z) == message.x = x /\ message.y = y /\ message.z = z

\* C4: to_message(Pose or Transform, matrix): a (4,4) matrix with the
\* bottom row (0,0,0,1) is encoded, the position being the first three
\* entries of the last column and the rotation of the identity block the
\* identity quaternion; any other bottom row fails with the ValueError of
\* the transform check, any other shape with that of the shape check.
MatrixEncoding ==
    (EncodesArray({"Pose", "Transform"}) /\ call.args[1].dtype \in RealDtypes) =>
        LET matrix == call.args[1]
            position_key == IF call.type = "Pose" THEN "position" ELSE "translation"
            rotation_key == IF call.type = "Pose" THEN "orientation" ELSE "rotation"
            block == [n \in 1..9 |-> At(matrix, (n - 1) \div 3, (n - 1) % 3)]
        IN  IF matrix.shape # <<4, 4>>
            THEN result = Err("ValueError", "Expected homogeneous matrix of shape (4,4)")
            ELSE IF \E j \in 0..3 : At(matrix, 3, j) # <<0, 0, 0, One>>[j + 1]
            THEN ~result.ok /\ result.exc = "ValueError"
            ELSE /\ result.ok
                 /\ result.val.type = call.type
                 /\ HoldsTriple(result.val[position_key],
                                At(matrix, 0, 3), At(matrix, 1, 3), At(matrix, 2, 3))
                 /\ block = <<One, 0, 0, 0, One, 0, 0, 0, One>> =>
                        result.val[rotation_key] = QuaternionMsg(0, 0, 0, One)

\* C5: numpy_to_vector(Point32, array) for an array of shape (3,) succeeds
\* when every element is a value a float32 holds exactly, whatever the
\* dtype of the array, and fails with the TypeError of the cast check when
\* some element is not.
CastSafety ==
    (EncodesArray({"Point32"}) /\ IsArray(call.args[1], <<3>>)
        /\ call.args[1].dtype \in RealDtypes) =>
        LET a == call.args[1].data
        IN  IF \A i \in 1..3 : IsF32Exact(a[i])
            THEN result = Ok(Vector3Msg("Point32", a[1], a[2], a[3]))
            ELSE result = Err("TypeError", "Cannot safely cast array")

\* C7: numpy_to_polygon(Polygon, P) for a (3,N) array P, N >= 1, of values
\* a float32 holds exactly gives a Polygon of N points, point k holding
\* column k of P; polygon_to_numpy of that message gives the (3,N) array of
\* the values of P; an array that is not 2-D or has neither 3 nor 4 rows
\* fails with the ValueError of the shape check.
PolygonCodec ==
    /\ (EncodesArray({"Polygon"}) /\ call.args[1].dtype \in {"float32", "float64"}) =>
          LET P == call.args[1]
          IN  IF Len(P.shape) # 2 \/ P.shape[1] \notin {3, 4}
              THEN ~result.ok /\ result.exc \in {"ValueError", "TypeError"}
              ELSE (P.shape[1] = 3 /\ P.shape[2] >= 1
                    /\ \A n \in 1..Len(P.data) : IsF32Exact(P.data[n])) =>
                       /\ result.ok
                       /\ Len(result.val.points) = P.shape[2]
                       /\ \A k \in 1..P.shape[2] :
                             /\ result.val.points[k].type = "Point32"
                             /\ HoldsTriple(result.val.points[k], At(P, 0, k - 1),
                                            At(P, 1, k - 1), At(P, 2, k - 1))
    /\ (call.op = "to_numpy" /\ call.type = "Polygon" /\ call.origin # None
        /\ IsArray(call.origin.args[1], <<3, Len(call.message.points)>>)) =>
          /\ result.ok
          /\ result.val.shape = call.origin.args[1].shape
          /\ result.val.data = call.origin.args[1].data

\* a 1-D array of three elements whose dtype casts to float64
IsVector3(a) == IsArray(a, <<3>>) /\ a.dtype \in RealDtypes

VectorOf(a) == Vector3Msg("Vector3", a.data[1], a.data[2], a.data[3])

\* C8: numpy_to_kinamatics(T, linear, angular) for T Accel, Twist or Wrench
\* and two 3-arrays gives a T holding the vector of linear first and the
\* vector of angular second; numpy_to_kinematics_with_covariance with a
\* (6,6) covariance besides gives a message holding that and the 36 values
\* of the matrix row by row.
KinematicsEncoding ==
    /\ (call.op = "to_message" /\ call.origin = None
        /\ call.type \in {"Accel", "Twist", "Wrench"} /\ Len(call.args) = 2
        /\ IsVector3(call.args[1]) /\ IsVector3(call.args[2])) =>
          result = Ok(KinematicsMsg(call.type, VectorOf(call.args[1]),
                                    VectorOf(call.args[2])))
    /\ (call.op = "to_message" /\ call.origin = None
        /\ call.type \in {"AccelWithCovariance", "TwistWithCovariance"}
        /\ Len(call.args) = 3
        /\ IsVector3(call.args[1]) /\ IsVector3(call.args[2])
        /\ IsArray(call.args[3], <<6, 6>>) /\ call.args[3].dtype \in RealDtypes) =>
          /\ result.ok
          /\ \A i, j \in 0..5 :
                result.val.covariance[i * 6 + j + 1] = At(call.args[3], i, j)

\* the rotation matrix of the unit quaternion with vector part (x, y, z)
\* and scalar part w, components in halves:
\*   1-2(yy+zz)  2(xy-zw)    2(xz+yw)
\*   2(xy+zw)    1-2(xx+zz)  2(yz-xw)
\*   2(xz-yw)    2(yz+xw)    1-2(xx+yy)
RotationMatrix(x, y, z, w) ==
    << One - (y * y + z * z) * Half, (x * y - z * w) * Half, (x * z + y * w) * Half,
       (x * y + z * w) * Half, One - (x * x + z * z) * Half, (y * z - x * w) * Half,
       (x * z - y * w) * Half, (y * z + x * w) * Half, One - (x * x + y * y) * Half >>

\* C9: frame_to_numpy(message, homogeneous=True) of a Pose, PoseStamped,
\* Transform or TransformStamped with position (px,py,pz) and a unit
\* orientation is the 4x4 matrix with bottom row (0,0,0,1), last column
\* (px,py,pz,1) and, top left, the rotation matrix of the quaternion with
\* vector part (x,y,z) and scalar part w of the message.
HomogeneousDecode ==
    (call.op = "to_numpy" /\ call.origin = None /\ call.kwargs = <<TRUE>>
        /\ call.type \in {"Pose", "PoseStamped", "Transform", "TransformStamped"}) =>
        LET frame == IF call.type \in {"PoseStamped", "TransformStamped"}
                     THEN call.message[PayloadField(call.type)] ELSE call.message
            p == IF frame.type = "Pose" THEN frame.position ELSE frame.translation
            q == IF frame.type = "Pose" THEN frame.orientation ELSE frame.rotation
            x == q.x \div Half
            y == q.y \div Half
            z == q.z \div Half
            w == q.w \div Half
        IN  (x * x + y * y + z * z + w * w = 4) =>
               /\ result.ok
               /\ result.val.shape = <<4, 4>>
               /\ \A j \in 0..3 : At(result.val, 3, j) = <<0, 0, 0, One>>[j + 1]
               /\ \A i \in 0..3 : At(result.val, i, 3) = <<p.x, p.y, p.z, One>>[i + 1]
               /\ \A i, j \in 0..2 :
                     At(result.val, i, j) = RotationMatrix(x, y, z, w)[i * 3 + j + 1]

\* C10: numpy_to_inertia(Inertia, mass, center, T) takes ixx, ixy, ixz, iyy,
\* iyz, izz from T[0,0], T[0,1], T[0,2], T[1,1], T[1,2], T[2,2];
\* inertia_to_numpy of the message gives the symmetric tensor of these six,
\* which is T when T is symmetric; a tensor of another shape fails with the
\* ValueError of the shape check.
InertiaTensorIndexing ==
    /\ (call.op = "to_message" /\ call.origin = None /\ call.type = "Inertia"
        /\ Len(call.args) = 3 /\ call.args[1].dtype = "float64"
        /\ IsVector3(call.args[2]) /\ call.args[3].dtype \in RealDtypes) =>
          LET tensor == call.args[3]
          IN  IF tensor.shape # <<3, 3>>
              THEN result = Err("ValueError", "Expected inertia tensor of shape (3,3)")
              ELSE /\ result.ok
                   /\ result.val.ixx = At(tensor, 0, 0)
                   /\ result.val.ixy = At(tensor, 0, 1)
                   /\ result.val.ixz = At(tensor, 0, 2)
                   /\ result.val.iyy = At(tensor, 1, 1)
                   /\ result.val.iyz = At(tensor, 1, 2)
                   /\ result.val.izz = At(tensor, 2, 2)
    /\ (call.op = "to_numpy" /\ call.type = "Inertia" /\ call.origin # None) =>
          LET tensor == call.origin.args[3]
              decoded == result.val.items[3]
          IN  /\ result.ok
              /\ \A i, j \in 0..2 :
                    /\ At(decoded, i, j) = At(decoded, j, i)
                    /\ i <= j => At(decoded, i, j) = At(tensor, i, j)

\* the numeric values the decoder of a class returns in its default mode
IsValueOf(type, args) ==
    LET vec(a, dtype) == IsArray(a, <<3>>) /\ a.dtype = dtype
    IN  CASE type \in {"Vector3", "Point"} -> Len(args) = 1 /\ vec(args[1], "float64")
          [] type = "Point32" -> Len(args) = 1 /\ vec(args[1], "float32")
          [] type \in {"Accel", "Twist", "Wrench"} ->
                 Len(args) = 2 /\ vec(args[1], "float64") /\ vec(args[2], "float64")
          [] type \in {"AccelWithCovariance", "TwistWithCovariance"} ->
                 /\ Len(args) = 3
                 /\ vec(args[1], "float64") /\ vec(args[2], "float64")
                 /\ IsArray(args[3], <<6, 6>>) /\ args[3].dtype = "float64"
          [] type = "Inertia" ->
                 /\ Len(args) = 3
                 /\ args[1].kind = "scalar" /\ args[1].dtype = "float64"
                 /\ vec(args[2], "float64")
                 /\ IsArray(args[3], <<3, 3>>) /\ args[3].dtype = "float64"
                 /\ \A i, j \in 0..2 : At(args[3], i, j) = At(args[3], j, i)
          [] type = "Polygon" ->
                 /\ Len(args) = 1 /\ args[1].kind = "ndarray"
                 /\ Len(args[1].shape) = 2 /\ args[1].shape[1] = 3
                 /\ args[1].shape[2] >= 1 /\ args[1].dtype = "float32"
          [] type = "Quaternion" -> Len(args) = 1 /\ args[1].kind = "quaternion"
          [] type \in {"Pose", "Transform"} ->
                 /\ Len(args) = 2
                 /\ vec(args[1], "float64") /\ args[2].kind = "quaternion"
          [] OTHER -> FALSE

\* C1: for every class T that is not stamped and has handlers registered,
\* to_message(T, *to_numpy(m)) is m for every message m of T, and
\* to_numpy(to_message(T, *values)) is values for every value tuple of T.
RoundTrip ==
    /\ (call.op = "to_message" /\ call.origin # None) =>
          result = Ok(call.origin.message)
    /\ (call.op = "to_message" /\ call.origin = None /\ IsValueOf(call.type, call.args)) =>
          result.ok
    /\ (call.op = "to_numpy" /\ call.origin # None
        /\ IsValueOf(call.type, call.origin.args)) =>
          result.ok /\ Star(result.val) = call.origin.args

==========================================================================
